---- MODULE Spec2Model ----
(***************************************************************************)
(* Model of src/weather.py: get_weather_data and its coercion helpers.     *)
(* Strings are sequences of one-character strings.  Python values are      *)
(* records with a type tag so that values of different Python types can    *)
(* be compared.                                                            *)
(***************************************************************************)
EXTENDS Integers, Sequences, FiniteSets, TLC

\* ------------------------------------------------------------------------
\* Bounds of the model
\* ------------------------------------------------------------------------
MaxLocLen == 2
MaxDays == 3
MaxManyDays == 6
MaxHourly == 3
MaxReqDays == 7

\* ------------------------------------------------------------------------
\* Python values
\* ------------------------------------------------------------------------
\* t: "none" | "int" | "str" | "float" | "nan" | "bool" | "list" | "dict"
\* int: n.  str: s.  float: n / 10^e with n not divisible by 10 unless e = 0.
\* bool: n in {0,1}.  list / dict (as a scalar position): n elements.
Val(t, n, e, s) == [t |-> t, n |-> n, e |-> e, s |-> s]
None == Val("none", 0, 0, <<>>)
IntV(n) == Val("int", n, 0, <<>>)
StrV(s) == Val("str", 0, 0, s)
FloatV(n, e) == Val("float", n, e, <<>>)
NaNV == Val("nan", 0, 0, <<>>)
BoolV(b) == Val("bool", IF b THEN 1 ELSE 0, 0, <<>>)
ListV(n) == Val("list", n, 0, <<>>)
DictV(n) == Val("dict", n, 0, <<>>)

Digits == <<"0", "1", "2", "3", "4", "5", "6", "7", "8", "9">>
DigitSet == {Digits[i] : i \in 1..10}
DigitVal(c) == (CHOOSE i \in 1..10 : Digits[i] = c) - 1
Whitespace == {" ", "\t", "\n"}

Abs(x) == IF x < 0 THEN -x ELSE x
Min2(a, b) == IF a < b THEN a ELSE b
Max2(a, b) == IF a > b THEN a ELSE b

RECURSIVE Pow10(_)
Pow10(k) == IF k = 0 THEN 1 ELSE 10 * Pow10(k - 1)

\* str.strip(): drop leading and trailing whitespace
RECURSIVE LStrip(_)
LStrip(s) == IF s # <<>> /\ Head(s) \in Whitespace THEN LStrip(Tail(s)) ELSE s
RECURSIVE RStrip(_)
RStrip(s) ==
  IF s # <<>> /\ s[Len(s)] \in Whitespace THEN RStrip(SubSeq(s, 1, Len(s) - 1)) ELSE s
Strip(s) == RStrip(LStrip(s))

\* decimal digits of a natural number
RECURSIVE NatToStr(_)
NatToStr(n) ==
  IF n < 10 THEN <<Digits[n + 1]>> ELSE Append(NatToStr(n \div 10), Digits[(n % 10) + 1])

\* the last k decimal digits of n, zero padded
RECURSIVE FracToStr(_, _)
FracToStr(n, k) ==
  IF k = 0 THEN <<>> ELSE Append(FracToStr(n \div 10, k - 1), Digits[(n % 10) + 1])

\* str(value)
PyStr(v) ==
  CASE v.t = "none" -> <<"N", "o", "n", "e">>
    [] v.t = "int" -> IF v.n < 0 THEN <<"-">> \o NatToStr(-v.n) ELSE NatToStr(v.n)
    [] v.t = "str" -> v.s
    [] v.t = "float" ->
         (IF v.n < 0 THEN <<"-">> ELSE <<>>)
           \o NatToStr(Abs(v.n) \div Pow10(v.e)) \o <<".">>
           \o (IF v.e = 0 THEN <<"0">> ELSE FracToStr(Abs(v.n) % Pow10(v.e), v.e))
    [] v.t = "nan" -> <<"n", "a", "n">>
    [] v.t = "bool" -> IF v.n = 1 THEN <<"T", "r", "u", "e">> ELSE <<"F", "a", "l", "s", "e">>
    [] v.t = "list" -> <<"[">> \o (IF v.n > 0 THEN <<"0">> ELSE <<>>) \o <<"]">>
    [] v.t = "dict" -> <<"{">> \o (IF v.n > 0 THEN <<"'", "k", "'", ":", "0">> ELSE <<>>) \o <<"}">>

AllDigits(s) == \A i \in 1..Len(s) : s[i] \in DigitSet

RECURSIVE DigitsToNat(_)
DigitsToNat(s) ==
  IF s = <<>> THEN 0 ELSE 10 * DigitsToNat(SubSeq(s, 1, Len(s) - 1)) + DigitVal(s[Len(s)])

HasSign(s) == s # <<>> /\ Head(s) \in {"+", "-"}
Unsigned(s) == IF HasSign(s) THEN Tail(s) ELSE s
SignOf(s) == IF s # <<>> /\ Head(s) = "-" THEN -1 ELSE 1

\* int(<str>): surrounding whitespace, an optional sign, one or more digits.
\* (The model's strings contain no "_" and no non-ASCII digits.)
IntParses(s) == LET u == Unsigned(Strip(s)) IN u # <<>> /\ AllDigits(u)
IntParse(s) == SignOf(Strip(s)) * DigitsToNat(Unsigned(Strip(s)))

\* float(<str>): surrounding whitespace, an optional sign, then "nan" or
\* digits with at most one "." and at least one digit.
\* (The model's strings contain no exponent and spell no "inf".)
DotPos(u) == IF \E i \in 1..Len(u) : u[i] = "." THEN CHOOSE i \in 1..Len(u) : u[i] = "." ELSE 0
IntPart(u) == IF DotPos(u) = 0 THEN u ELSE SubSeq(u, 1, DotPos(u) - 1)
FracPart(u) == IF DotPos(u) = 0 THEN <<>> ELSE SubSeq(u, DotPos(u) + 1, Len(u))
IsNaNWord(u) == u = <<"n", "a", "n">>
IsDecimal(u) ==
  /\ AllDigits(IntPart(u))
  /\ AllDigits(FracPart(u))
  /\ Len(IntPart(u)) + Len(FracPart(u)) > 0
FloatParses(s) == LET u == Unsigned(Strip(s)) IN IsNaNWord(u) \/ IsDecimal(u)

\* n / 10^e in lowest decimal form
RECURSIVE NormFloat(_, _)
NormFloat(n, e) == IF e > 0 /\ n % 10 = 0 THEN NormFloat(n \div 10, e - 1) ELSE FloatV(n, e)

FloatParse(s) ==
  LET u == Unsigned(Strip(s)) IN
    IF IsNaNWord(u) THEN NaNV
    ELSE NormFloat(SignOf(Strip(s)) * DigitsToNat(IntPart(u) \o FracPart(u)), Len(FracPart(u)))

\* _safe_int(value): int(str(value)), None on any exception
SafeInt(v) == IF IntParses(PyStr(v)) THEN IntV(IntParse(PyStr(v))) ELSE None

\* _safe_float(value): float(str(value)), None on any exception
SafeFloat(v) == IF FloatParses(PyStr(v)) THEN FloatParse(PyStr(v)) ELSE None

\* ------------------------------------------------------------------------
\* Decoded JSON bodies
\* ------------------------------------------------------------------------
\* A value in a container position ('weather', 'hourly').
\* t: "absent" | "null" | "list" | "str" | "int" | "bool" | "dict";
\* list: items, n = Len(items).  str: n characters.  int: the number n.
\* bool: n in {0,1}.  dict: n keys.
Coll(t, n, items) == [t |-> t, n |-> n, items |-> items]
ListOf(items) == Coll("list", Len(items), items)
Absent == Coll("absent", 0, <<>>)
Null == Coll("null", 0, <<>>)

\* an element of an 'hourly' list; t = "dict" for a mapping
Hour(t, humidity, windspeedKmph) ==
  [t |-> t, humidity |-> humidity, windspeedKmph |-> windspeedKmph]
\* an element of the 'weather' list; t = "dict" for a mapping
Day(t, date, avgtempC, totalprecipMM, hourly) ==
  [t |-> t, date |-> date, avgtempC |-> avgtempC, totalprecipMM |-> totalprecipMM,
   hourly |-> hourly]
NonDictHour(t) == Hour(t, None, None)
NonDictDay(t) == Day(t, None, None, None, Absent)
\* the decoded top-level value; t = "dict" for a mapping
Body(t, weather) == [t |-> t, weather |-> weather]

\* what the upstream service does with the one request
\* kind: "timeout" | "connection" | "status" | "badjson" | "ok"
Upstream(kind, body) == [kind |-> kind, body |-> body]

\* bool(value) of a container-position value
Truthy(c) ==
  CASE c.t \in {"absent", "null"} -> FALSE
    [] c.t \in {"list", "str", "dict"} -> c.n > 0
    [] c.t = "int" -> c.n # 0
    [] c.t = "bool" -> c.n = 1

\* value or []
OrEmptyList(c) == IF Truthy(c) THEN c ELSE ListOf(<<>>)

\* ------------------------------------------------------------------------
\* get_weather_data, step by step
\* ------------------------------------------------------------------------
\* not isinstance(location, str) or not location.strip()
InvalidLocationNoStrip(loc) == loc.t # "str" \/ loc.s = <<>>
InvalidLocation(loc) == loc.t # "str" \/ Strip(loc.s) = <<>>

\* urllib.parse.quote with the default safe="/"
Unreserved ==
  DigitSet \cup {"a", "b", "c", "x", "y", "z", "A", "Z", "_", ".", "-", "~"}
PercentEncode(c) ==
  CASE c = " " -> <<"%", "2", "0">>
    [] c = "?" -> <<"%", "3", "F">>
    [] c = "\t" -> <<"%", "0", "9">>
    [] c = "\n" -> <<"%", "0", "A">>
RECURSIVE Quote(_)
Quote(s) ==
  IF s = <<>> THEN <<>>
  ELSE (IF Head(s) \in Unreserved \cup {"/"} THEN <<Head(s)>> ELSE PercentEncode(Head(s)))
         \o Quote(Tail(s))

UrlPrefix ==
  <<"h", "t", "t", "p", "s", ":", "/", "/", "w", "t", "t", "r", ".", "i", "n", "/">>
UrlSuffix == <<"?", "f", "o", "r", "m", "a", "t", "=", "j", "1">>
BuildUrl(loc) == UrlPrefix \o Quote(Strip(loc.s)) \o UrlSuffix

\* the three statements of the try block: an exception in any of them
FetchRaisesNoDecode(up) == up.kind \in {"timeout", "connection", "status"}
FetchRaises(up) == up.kind \in {"timeout", "connection", "status", "badjson"}

\* int(forecast_days) raises
IntRaises(v) ==
  \/ v.t \in {"none", "nan", "list", "dict"}
  \/ v.t = "str" /\ ~IntParses(v.s)
\* int(forecast_days) when it does not raise; a float is truncated toward 0
PyInt(v) ==
  CASE v.t \in {"int", "bool"} -> v.n
    [] v.t = "str" -> IntParse(v.s)
    [] v.t = "float" ->
         IF v.n < 0 THEN -((-v.n) \div Pow10(v.e)) ELSE v.n \div Pow10(v.e)

DefaultDays == 5
\* try: max(1, int(forecast_days)) except: 5
RequestedDaysNoDefault(fd) == IF IntRaises(fd) THEN 1 ELSE Max2(1, PyInt(fd))
RequestedDaysNoFloor(fd) == IF IntRaises(fd) THEN DefaultDays ELSE PyInt(fd)
RequestedDays(fd) == IF IntRaises(fd) THEN DefaultDays ELSE Max2(1, PyInt(fd))

\* len(days) raises for a value without a length
LenRaises(c) == c.t \in {"int", "bool"}
\* min(num_days, len(days))
ClampDays(n, c) == Min2(n, c.n)

\* days[:num_days] raises for a mapping
SliceRaises(c) == c.t = "dict"
\* days[:num_days]; the elements of a string are one-character strings
SliceSkipFirst(c, n) ==
  IF c.t = "list" THEN SubSeq(c.items, 2, Min2(n + 1, c.n))
  ELSE [i \in 1..Min2(n, c.n) |-> NonDictDay("str")]
Slice(c, n) ==
  IF c.t = "list" THEN SubSeq(c.items, 1, Min2(n, c.n))
  ELSE [i \in 1..Min2(n, c.n) |-> NonDictDay("str")]

RECURSIVE SumN(_)
SumN(vals) == IF vals = <<>> THEN 0 ELSE Head(vals).n + SumN(Tail(vals))

RECURSIVE MaxN(_)
MaxN(vals) ==
  IF Len(vals) = 1 THEN vals[1].n ELSE Max2(Head(vals).n, MaxN(Tail(vals)))

\* round(num / den) for den > 0: nearest integer, a tie goes to the even one
PyRound(num, den) ==
  LET q == num \div den
      r == num % den
  IN  IF 2 * r < den THEN q
      ELSE IF 2 * r > den THEN q + 1
      ELSE IF q % 2 = 0 THEN q ELSE q + 1

NotNone(x) == x # None

\* [_safe_int(h.get("humidity")) for h in hourly if h.get("humidity") is not None]
Humidities(items) ==
  LET present == SelectSeq(items, LAMBDA h : h.humidity # None)
  IN  [i \in 1..Len(present) |-> SafeInt(present[i].humidity)]
\* [_safe_int(h.get("windspeedKmph")) for h in hourly if ... is not None]
WindsKmph(items) ==
  LET present == SelectSeq(items, LAMBDA h : h.windspeedKmph # None)
  IN  [i \in 1..Len(present) |-> SafeInt(present[i].windspeedKmph)]

\* valid_h = [h for h in humidities if h is not None]
\* round(sum(valid_h) / len(valid_h)) if valid_h else None
AvgHumidityCountsAll(humidities) ==
  LET valid_h == SelectSeq(humidities, NotNone)
  IN  IF valid_h # <<>> THEN IntV(PyRound(SumN(valid_h), Len(humidities))) ELSE None
AvgHumidity(humidities) ==
  LET valid_h == SelectSeq(humidities, NotNone)
  IN  IF valid_h # <<>> THEN IntV(PyRound(SumN(valid_h), Len(valid_h))) ELSE None

\* valid_w = [w for w in winds_kmph if w is not None]
\* max(valid_w) if valid_w else None
MaxWindKmphLast(winds_kmph) ==
  LET valid_w == SelectSeq(winds_kmph, NotNone)
  IN  IF valid_w # <<>> THEN IntV(valid_w[Len(valid_w)].n) ELSE None
MaxWindKmph(winds_kmph) ==
  LET valid_w == SelectSeq(winds_kmph, NotNone)
  IN  IF valid_w # <<>> THEN IntV(MaxN(valid_w)) ELSE None

\* day.get(...) raises for a day that is not a mapping; iterating 'hourly'
\* raises for a number, and h.get(...) raises for an element that is not a
\* mapping (the elements of a string or of a mapping's keys are strings)
DayException(day) ==
  LET hourly == OrEmptyList(day.hourly) IN
    IF day.t # "dict" THEN "AttributeError"
    ELSE IF hourly.t \in {"int", "bool"} THEN "TypeError"
    ELSE IF hourly.t \in {"str", "dict"} THEN "AttributeError"
    ELSE IF \E i \in 1..Len(hourly.items) : hourly.items[i].t # "dict" THEN "AttributeError"
    ELSE "none"

AggregatedDay(date, temp, humidity, wind, precipitation) ==
  [date |-> date, temp |-> temp, humidity |-> humidity, wind |-> wind,
   precipitation |-> precipitation]

\* the body of the loop for one day that raises nothing
ReduceDay(day) ==
  LET hourly == OrEmptyList(day.hourly) IN
    AggregatedDay(day.date, SafeInt(day.avgtempC), AvgHumidity(Humidities(hourly.items)),
                  MaxWindKmph(WindsKmph(hourly.items)), SafeFloat(day.totalprecipMM))

\* the exception the loop body ends with, "none" if it completes
LoopExceptionStrictTemp(day) ==
  IF DayException(day) # "none" THEN DayException(day)
  ELSE IF SafeInt(day.avgtempC) = None \/ SafeFloat(day.totalprecipMM) = None
       THEN "ValueError" ELSE "none"
LoopException(day) == DayException(day)

\* the return values
ResultRec(kind, exc, loc, forecast) ==
  [kind |-> kind, exc |-> exc, location |-> loc, forecast |-> forecast]
Pending == ResultRec("pending", "none", None, <<>>)
ReturnNone == ResultRec("none", "none", None, <<>>)
Raised(exc) == ResultRec("raised", exc, None, <<>>)
\* {"location": location, "forecast": forecast}
ForecastResultStripped(loc, forecast) ==
  ResultRec("result", "none", StrV(Strip(loc.s)), forecast)
ForecastResult(loc, forecast) == ResultRec("result", "none", loc, forecast)

\* ------------------------------------------------------------------------
\* State
\* ------------------------------------------------------------------------
VARIABLES
  pc,             \* the statement get_weather_data is at
  location,       \* argument
  forecast_days,  \* argument
  upstream,       \* what the upstream service answers to a request
  url,            \* local: the request URL
  requests,       \* the URLs of the GET requests issued so far
  diagnostics,    \* the messages printed so far
  data,           \* local: the decoded body
  days,           \* local
  num_days,       \* local
  sliced,         \* local: days[:num_days], the sequence the loop runs over
  forecast,       \* local
  result          \* what the call ended with

vars ==
  <<pc, location, forecast_days, upstream, url, requests, diagnostics, data, days,
    num_days, sliced, forecast, result>>

NoBody == Body("null", Absent)

\* a call with the given arguments, about to execute its first statement
Start(in) ==
  /\ pc = "validate"
  /\ location = in.location
  /\ forecast_days = in.forecast_days
  /\ upstream = in.upstream
  /\ url = <<>>
  /\ requests = <<>>
  /\ diagnostics = <<>>
  /\ data = NoBody
  /\ days = Absent
  /\ num_days = 0
  /\ sliced = <<>>
  /\ forecast = <<>>
  /\ result = Pending

\* print(...); return None
Fail(msg) ==
  /\ diagnostics' = Append(diagnostics, msg)
  /\ result' = ReturnNone
  /\ pc' = "done"

\* an exception leaves the function
Propagate(exc) ==
  /\ result' = Raised(exc)
  /\ pc' = "done"
  /\ UNCHANGED diagnostics

\* lines 35-39
Validate ==
  /\ pc = "validate"
  /\ IF InvalidLocation(location)
       THEN Fail("invalid_location") /\ UNCHANGED url
       ELSE /\ url' = BuildUrl(location)
            /\ pc' = "fetch"
            /\ UNCHANGED <<diagnostics, result>>
  /\ UNCHANGED <<location, forecast_days, upstream, requests, data, days, num_days,
                 sliced, forecast>>

\* lines 41-47
Fetch ==
  /\ pc = "fetch"
  /\ requests' = Append(requests, url)
  /\ IF FetchRaises(upstream)
       THEN Fail("fetch_error") /\ UNCHANGED data
       ELSE /\ data' = upstream.body
            /\ pc' = "shape"
            /\ UNCHANGED <<diagnostics, result>>
  /\ UNCHANGED <<location, forecast_days, upstream, url, days, num_days, sliced, forecast>>

\* not days
MissingDaysOnlyNone(c) == c.t \in {"absent", "null"}
MissingDays(c) == ~Truthy(c)

\* lines 49-52
Shape ==
  /\ pc = "shape"
  /\ IF data.t # "dict"
       THEN Propagate("AttributeError") /\ UNCHANGED days
       ELSE IF MissingDays(data.weather)
         THEN Fail("unexpected_shape") /\ days' = OrEmptyList(data.weather)
         ELSE /\ days' = data.weather
              /\ pc' = "resolve"
              /\ UNCHANGED <<diagnostics, result>>
  /\ UNCHANGED <<location, forecast_days, upstream, url, requests, data, num_days,
                 sliced, forecast>>

\* lines 54-58
ResolveDays ==
  /\ pc = "resolve"
  /\ IF LenRaises(days)
       THEN Propagate("TypeError") /\ UNCHANGED num_days
       ELSE /\ num_days' = ClampDays(RequestedDays(forecast_days), days)
            /\ pc' = "slice"
            /\ UNCHANGED <<diagnostics, result>>
  /\ UNCHANGED <<location, forecast_days, upstream, url, requests, data, days, sliced,
                 forecast>>

\* lines 60-61: forecast = []; days[:num_days]
SliceDays ==
  /\ pc = "slice"
  /\ IF SliceRaises(days)
       THEN Propagate("TypeError") /\ UNCHANGED <<sliced, forecast>>
       ELSE /\ sliced' = Slice(days, num_days)
            /\ forecast' = <<>>
            /\ pc' = "loop"
            /\ UNCHANGED <<diagnostics, result>>
  /\ UNCHANGED <<location, forecast_days, upstream, url, requests, data, days, num_days>>

\* lines 61-82: one iteration of the loop
LoopStep ==
  /\ pc = "loop"
  /\ Len(forecast) < Len(sliced)
  /\ LET day == sliced[Len(forecast) + 1] IN
       IF LoopException(day) # "none"
         THEN Propagate(LoopException(day)) /\ UNCHANGED forecast
         ELSE /\ forecast' = Append(forecast, ReduceDay(day))
              /\ UNCHANGED <<pc, diagnostics, result>>
  /\ UNCHANGED <<location, forecast_days, upstream, url, requests, data, days, num_days,
                 sliced>>

\* line 84
Return ==
  /\ pc = "loop"
  /\ Len(forecast) = Len(sliced)
  /\ result' = ForecastResult(location, forecast)
  /\ pc' = "done"
  /\ UNCHANGED <<location, forecast_days, upstream, url, requests, diagnostics, data,
                 days, num_days, sliced, forecast>>

Next ==
  \/ Validate
  \/ Fetch
  \/ Shape
  \/ ResolveDays
  \/ SliceDays
  \/ LoopStep
  \/ Return

\* ------------------------------------------------------------------------
\* Inputs
\* ------------------------------------------------------------------------
\* all strings over the characters cs of length at most n
Strings(cs, n) == UNION {[1..k -> cs] : k \in 0..n}

LocChars == {" ", "a", "?"}
Locations == {None, IntV(3)} \cup {StrV(s) : s \in Strings(LocChars, MaxLocLen)}
PlainLocation == StrV(<<"a">>)

NotANumber == StrV(<<"n", "/", "a">>)
ReqDaysVals ==
  {IntV(n) : n \in (-1)..MaxReqDays}
    \cup {None, StrV(<<"a", "b", "c">>), StrV(<<>>), StrV(<<" ", "2">>), FloatV(25, 1),
          BoolV(TRUE)}

Inputs(locs, fds, ups) ==
  {[location |-> l, forecast_days |-> f, upstream |-> u] : l \in locs, f \in fds, u \in ups}

Ok(weather) == Upstream("ok", Body("dict", weather))
Failures == {Upstream(k, NoBody) : k \in {"timeout", "connection", "status", "badjson"}}
NonDictBodies == {Upstream("ok", Body(t, Absent)) : t \in {"list", "str", "null", "int"}}
NonListWeathers ==
  {Ok(w) : w \in {Absent, Null, ListOf(<<>>), Coll("str", 0, <<>>), Coll("str", 2, <<>>),
                  Coll("int", 0, <<>>), Coll("int", 7, <<>>), Coll("bool", 1, <<>>),
                  Coll("dict", 0, <<>>), Coll("dict", 1, <<>>)}}

GoodHourly ==
  ListOf(<<Hour("dict", StrV(<<"5", "0">>), StrV(<<"1", "0">>)),
           Hour("dict", StrV(<<"6", "1">>), StrV(<<"2", "5">>))>>)
DayA ==
  Day("dict", StrV(<<"d", "1">>), StrV(<<"2", "1">>), StrV(<<"0", ".", "5">>), GoodHourly)
DayB ==
  Day("dict", StrV(<<"d", "2">>), NotANumber, None,
      ListOf(<<Hour("dict", None, NotANumber)>>))
DayBadHour ==
  Day("dict", StrV(<<"d", "3">>), IntV(4), IntV(0), ListOf(<<NonDictHour("str")>>))
DayHourlyNumber ==
  Day("dict", StrV(<<"d", "4">>), IntV(4), IntV(0), Coll("int", 24, <<>>))
DayHourlyText ==
  Day("dict", StrV(<<"d", "5">>), IntV(4), IntV(0), Coll("str", 2, <<>>))

\* all lists of lo..hi elements of ds
Lists(ds, lo, hi) == UNION {[1..k -> ds] : k \in lo..hi}

\* one input for every way the call can end
BaseUpstreams ==
  Failures \cup NonDictBodies \cup NonListWeathers
    \cup {Ok(ListOf(<<d>>)) : d \in {DayA, DayB, DayBadHour, DayHourlyNumber,
                                     DayHourlyText, NonDictDay("none")}}
BaseInputs ==
  Inputs({None, StrV(<<" ">>), PlainLocation}, {IntV(1), None}, BaseUpstreams)

\* every location with every day count and every shape of answer
CallInputs ==
  Inputs(Locations, ReqDaysVals, {Upstream("timeout", NoBody), Ok(ListOf(<<DayA>>))})
    \cup Inputs(Locations, {IntV(2), None},
                BaseUpstreams
                  \cup {Ok(ListOf(l)) :
                          l \in Lists({DayA, DayB, DayBadHour, NonDictDay("str")}, 0, MaxDays)})

\* well-formed answers of up to MaxManyDays days with every day count
DayCountInputs ==
  BaseInputs
    \cup Inputs({PlainLocation}, ReqDaysVals,
                {Ok(ListOf(l)) : l \in Lists({DayA, DayB}, 1, MaxManyDays)})

\* one day with every hourly list, or with every temperature and precipitation
MaxReading == 2
Readings ==
  {StrV(NatToStr(n)) : n \in 0..MaxReading} \cup {None, NotANumber, IntV(-3), StrV(<<>>)}
Hours ==
  {Hour("dict", h, StrV(<<"1">>)) : h \in Readings}
    \cup {Hour("dict", StrV(<<"1">>), w) : w \in Readings}
Hourlies == {Absent, Null} \cup {ListOf(l) : l \in Lists(Hours, 0, MaxHourly)}
TempVals ==
  {None, NotANumber, StrV(<<"2", "1">>), StrV(<<" ", "-", "4", "\n">>), IntV(7),
   FloatV(215, 1), StrV(<<"2", "1", ".", "5">>), BoolV(TRUE)}
PrecipVals ==
  {None, NotANumber, StrV(<<"0", ".", "5">>), StrV(<<"1", "2">>), StrV(<<".">>),
   FloatV(12, 1), IntV(3), StrV(<<"n", "a", "n">>)}
HourlyDays == {Day("dict", StrV(<<"d", "6">>), StrV(<<"9">>), None, h) : h \in Hourlies}
FieldDays ==
  {Day("dict", d, t, p, GoodHourly) : d \in {None, StrV(<<"d", "7">>)}, t \in TempVals,
                                        p \in PrecipVals}
DayInputs ==
  BaseInputs
    \cup Inputs({PlainLocation}, {IntV(2)},
                {Ok(ListOf(<<d>>)) : d \in HourlyDays}
                  \cup {Ok(ListOf(<<d, DayA>>)) : d \in FieldDays}
                  \cup {Ok(ListOf(<<DayB, d>>)) : d \in FieldDays})

\* ------------------------------------------------------------------------
\* Specifications
\* ------------------------------------------------------------------------
Init == \E in \in CallInputs : Start(in)
Spec == Init /\ [][Next]_vars

InitDayCount == \E in \in DayCountInputs : Start(in)
SpecDayCount == InitDayCount /\ [][Next]_vars

InitDay == \E in \in DayInputs : Start(in)
SpecDay == InitDay /\ [][Next]_vars

\* ------------------------------------------------------------------------
\* Vocabulary of the properties
\* ------------------------------------------------------------------------
Done == pc = "done"
Returned == Done /\ result.kind = "result"

\* not a string, or a string of whitespace only (the empty string included)
BlankOrNonString(loc) ==
  loc.t # "str" \/ \A i \in 1..Len(loc.s) : loc.s[i] \in Whitespace

\* the answer has the shape { weather: [ { ..., hourly: [ {...}, ... ] }, ... ] }
\* with at least one day; 'hourly' may be missing
ExpectedDay(d) ==
  /\ d.t = "dict"
  /\ \/ d.hourly.t \in {"absent", "null"}
     \/ /\ d.hourly.t = "list"
        /\ \A j \in 1..Len(d.hourly.items) : d.hourly.items[j].t = "dict"
ExpectedShape(up) ==
  /\ up.kind = "ok"
  /\ up.body.t = "dict"
  /\ up.body.weather.t = "list"
  /\ Len(up.body.weather.items) >= 1
  /\ \A i \in 1..Len(up.body.weather.items) : ExpectedDay(up.body.weather.items[i])

UpstreamDays == upstream.body.weather.items
HoursOf(d) == IF d.hourly.t = "list" THEN d.hourly.items ELSE <<>>

\* the positions of the hourly entries whose reading is present and coerces
CoercibleHumidity(hrs) ==
  {j \in 1..Len(hrs) : hrs[j].humidity # None /\ SafeInt(hrs[j].humidity) # None}
CoercibleWind(hrs) ==
  {j \in 1..Len(hrs) : hrs[j].windspeedKmph # None /\ SafeInt(hrs[j].windspeedKmph) # None}

RECURSIVE HumiditySum(_, _)
HumiditySum(hrs, S) ==
  IF S = {} THEN 0
  ELSE LET j == CHOOSE x \in S : TRUE
       IN  SafeInt(hrs[j].humidity).n + HumiditySum(hrs, S \ {j})

\* ------------------------------------------------------------------------
\* Properties
\* ------------------------------------------------------------------------
\* C1: a call whose location is not a string, or is an empty or
\* whitespace-only string, issues no request at any point and ends by
\* returning None, whatever forecast_days is.
C1_InvalidLocationNoRequest ==
  BlankOrNonString(location) =>
    /\ requests = <<>>
    /\ Done => result = ReturnNone
C1_Witness ==
  /\ Done
  /\ location = StrV(<<" ", " ">>)
  /\ forecast_days = StrV(<<"a", "b", "c">>)
  /\ result = ReturnNone
  /\ requests = <<>>

\* C2: for an answer of the expected shape with N >= 1 days and an integer
\* day count D, the forecast has min(max(D,1), N) entries and its i-th entry
\* comes from the i-th upstream day.
C2_ForecastIsClampedPrefix ==
  (Done /\ ~BlankOrNonString(location) /\ ExpectedShape(upstream) /\ forecast_days.t = "int") =>
    /\ result.kind = "result"
    /\ Len(result.forecast) = Min2(Max2(forecast_days.n, 1), Len(UpstreamDays))
    /\ \A i \in 1..Len(result.forecast) :
         /\ result.forecast[i].date = UpstreamDays[i].date
         /\ result.forecast[i].temp = SafeInt(UpstreamDays[i].avgtempC)
C2_Witness ==
  /\ Returned
  /\ forecast_days = IntV(2)
  /\ UpstreamDays = <<DayA, DayB, DayA>>
  /\ Len(result.forecast) = 2
  /\ result.forecast[1].date = DayA.date
  /\ result.forecast[2].date = DayB.date

\* C3: a day count that int() cannot parse gives what D = 5 gives: the call
\* succeeds with the first min(5, N) days.
C3_UnparsableDayCountIsFive ==
  (Done /\ ~BlankOrNonString(location) /\ ExpectedShape(upstream) /\ IntRaises(forecast_days)) =>
    /\ result.kind = "result"
    /\ Len(result.forecast) = Min2(5, Len(UpstreamDays))
    /\ \A i \in 1..Len(result.forecast) :
         /\ result.forecast[i].date = UpstreamDays[i].date
         /\ result.forecast[i].temp = SafeInt(UpstreamDays[i].avgtempC)
C3_Witness ==
  /\ Returned
  /\ forecast_days = StrV(<<"a", "b", "c">>)
  /\ Len(UpstreamDays) = 6
  /\ Len(result.forecast) = 5

\* C4: whatever the location, the day count and the decoded body are, the
\* call ends by returning a result or None, never with an exception.
C4_NothingPropagates == Done => result.kind \in {"result", "none"}

\* C5: a call with a valid location issues exactly one GET, and when that
\* request fails (transport, status, undecodable body) it prints one
\* diagnostic and returns None.
C5_OneRequestFailureIsNone ==
  ~BlankOrNonString(location) =>
    /\ Len(requests) <= 1
    /\ pc \notin {"validate", "fetch"} => Len(requests) = 1
    /\ (Done /\ upstream.kind \in {"timeout", "connection", "status", "badjson"}) =>
         /\ result = ReturnNone
         /\ diagnostics = <<"fetch_error">>
C5_Witness ==
  /\ Done
  /\ upstream.kind = "badjson"
  /\ Len(requests) = 1
  /\ diagnostics = <<"fetch_error">>
  /\ result = ReturnNone

\* C6: a mapping whose 'weather' is absent, null or an empty list gives one
\* diagnostic and None; every result returned has at least one forecast entry.
C6_MissingWeatherIsNone ==
  /\ (Done /\ ~BlankOrNonString(location) /\ upstream.kind = "ok" /\ upstream.body.t = "dict"
        /\ (upstream.body.weather.t \in {"absent", "null"} \/ upstream.body.weather = ListOf(<<>>)))
       => (result = ReturnNone /\ diagnostics = <<"unexpected_shape">>)
  /\ Returned => Len(result.forecast) >= 1
C6_Witness ==
  /\ Done
  /\ upstream = Ok(ListOf(<<>>))
  /\ Len(requests) = 1
  /\ diagnostics = <<"unexpected_shape">>
  /\ result = ReturnNone

\* C7: the humidity of every returned day is a nearest integer to the mean
\* of the hourly humidity values that are present and coercible, and is None
\* exactly when there is no such value.
C7_HumidityIsRoundedMean ==
  Returned =>
    \A i \in 1..Len(result.forecast) :
      LET hrs == HoursOf(UpstreamDays[i])
          S == CoercibleHumidity(hrs)
          out == result.forecast[i].humidity
      IN  /\ (S = {}) <=> (out = None)
          /\ S # {} =>
               /\ out.t = "int"
               /\ 2 * Abs(HumiditySum(hrs, S) - Cardinality(S) * out.n) <= Cardinality(S)
C7_Witness ==
  /\ Returned
  /\ HoursOf(UpstreamDays[1]) =
       <<Hour("dict", NotANumber, StrV(<<"1">>)), Hour("dict", StrV(<<"2">>), StrV(<<"1">>)),
         Hour("dict", None, StrV(<<"1">>))>>
  /\ result.forecast[1].humidity = IntV(2)

\* C8: the wind of every returned day is the greatest of the hourly wind
\* speeds that are present and coercible, and is None exactly when there is
\* no such value.
C8_WindIsMaximum ==
  Returned =>
    \A i \in 1..Len(result.forecast) :
      LET hrs == HoursOf(UpstreamDays[i])
          S == CoercibleWind(hrs)
          out == result.forecast[i].wind
      IN  /\ (S = {}) <=> (out = None)
          /\ S # {} =>
               /\ out.t = "int"
               /\ \E j \in S : SafeInt(hrs[j].windspeedKmph).n = out.n
               /\ \A j \in S : SafeInt(hrs[j].windspeedKmph).n <= out.n
C8_Witness ==
  /\ Returned
  /\ HoursOf(UpstreamDays[1]) =
       <<Hour("dict", StrV(<<"1">>), StrV(<<"2">>)), Hour("dict", StrV(<<"1">>), NotANumber),
         Hour("dict", StrV(<<"1">>), StrV(<<"0">>))>>
  /\ result.forecast[1].wind = IntV(2)

\* C9: an avgtempC or totalprecipMM that is absent or not coercible makes
\* that one output field None; the call still returns a result with an entry
\* for every selected day, and every other field is what it is for the same
\* day with coercible temperature and precipitation.
C9_FieldFailureIsLocal ==
  (Done /\ ~BlankOrNonString(location) /\ ExpectedShape(upstream)) =>
    /\ result.kind = "result"
    /\ Len(result.forecast) = Len(sliced)
    /\ \A i \in 1..Len(result.forecast) :
         LET d == UpstreamDays[i]
             out == result.forecast[i]
             ref == ReduceDay([d EXCEPT !.avgtempC = IntV(0), !.totalprecipMM = IntV(0)])
         IN  /\ SafeInt(d.avgtempC) = None => out.temp = None
             /\ SafeFloat(d.totalprecipMM) = None => out.precipitation = None
             /\ out.temp = ReduceDay([d EXCEPT !.totalprecipMM = IntV(0)]).temp
             /\ out.precipitation = ReduceDay([d EXCEPT !.avgtempC = IntV(0)]).precipitation
             /\ out.date = ref.date
             /\ out.humidity = ref.humidity
             /\ out.wind = ref.wind
C9_Witness ==
  /\ Returned
  /\ Len(UpstreamDays) = 2
  /\ UpstreamDays[1].avgtempC = NotANumber
  /\ UpstreamDays[1].totalprecipMM = StrV(<<"0", ".", "5">>)
  /\ result.forecast[1].temp = None
  /\ result.forecast[1].precipitation = FloatV(5, 1)
  /\ result.forecast[1].date = StrV(<<"d", "7">>)
  /\ result.forecast[2].temp = IntV(21)

\* C10: a returned result carries the caller's location unchanged, while the
\* one request went to the URL of the trimmed, percent-encoded location.
C10_LocationUnchanged ==
  Returned =>
    /\ result.location = location
    /\ requests = <<UrlPrefix \o Quote(Strip(location.s)) \o UrlSuffix>>
C10_Witness ==
  /\ Returned
  /\ location = StrV(<<" ", "a">>)
  /\ result.location = StrV(<<" ", "a">>)
  /\ requests =
       <<(<<"h", "t", "t", "p", "s", ":", "/", "/", "w", "t", "t", "r", ".", "i", "n", "/",
            "a", "?", "f", "o", "r", "m", "a", "t", "=", "j", "1">>)>>

====
